---- MODULE Spec2Model ----
(***************************************************************************)
(* variable_length_masking.ipynb: a batch of variable-length sequences is  *)
(* evaluated one sequence at a time by a 2-layer recurrent model, then     *)
(* zero-post-padded to one float32 tensor and evaluated by the same model  *)
(* without masking and by a copy of it behind a Masking(mask_value=0.0)    *)
(* layer.                                                                  *)
(*                                                                         *)
(* Numbers are integer-valued floats.  A recurrent state is the sequence   *)
(* of inputs its layer has consumed since the initial state (the free      *)
(* interpretation of the cell, valid for every weight tensor), taken       *)
(* modulo the one identity the zero-initialised biases of the notebook's   *)
(* layers give: a zero input leaves the zero initial state at zero.        *)
(***************************************************************************)
EXTENDS Integers, Sequences, FiniteSets, TLC

VARIABLES
    pc,         \* the notebook cell that runs next
    df,         \* the table of jets, a row of components per jet (jet notebook)
    arrays,     \* the list of sequences (float64), each a list of feature vectors
    single,     \* outputs of the loop  model(array[np.newaxis, :])
    padded,     \* result of pad_sequences: [ok, shape, data]
    weights,    \* weights of `model` and of `masked_model`
    run,        \* the model whose predict() is running
    layer,      \* the recurrent layer that is running (1 or 2)
    t,          \* number of timesteps the running layer has processed
    x,          \* input tensor of the running layer, [i][t]
    mask,       \* mask that comes with x: [has, val]
    h,          \* recurrent state of each sequence in the running layer
    prev,       \* last output of each sequence in the running layer
    outs,       \* outputs of the running layer so far, [i][t]
    upd,        \* history: upd[m][l][i][t] = the step took the transition's result
    pred,       \* predictions of predict(): pred[m][i]
    batch_size, \* the batch_size argument of predict()
    done        \* rows of the padded tensor predict() has finished before x

vars == <<pc, df, arrays, single, padded, weights, run, layer, t, x, mask, h, prev,
          outs, upd, pred, batch_size, done>>

(***************************************************************************)
(* Bounds of the model.                                                    *)
(***************************************************************************)
\* the batch holds at most MaxSize sequences and timesteps, counted together
MaxSize == 6

\* feature vectors of the generated data: the padding value itself, a vector
\* with one zero component, and a vector float32 cannot hold exactly
\* np.random.normal(size=(count, 3))
Vecs == { <<0, 0, 0>>, <<0, 1, 2>>, <<16777217, 2, 3>> }

\* a batch of two sequences of counts 3 and 5
Scenario ==
    << << <<0, 1, 2>>, <<16777217, 2, 3>>, <<0, 1, 2>> >>,
       << <<0, 1, 2>>, <<0, 1, 2>>, <<16777217, 2, 3>>, <<0, 1, 2>>,
          <<16777217, 2, 3>> >> >>

RECURSIVE SeqsOfLen(_)
SeqsOfLen(n) ==
    IF n = 0 THEN { <<>> }
    ELSE { Append(s, v) : s \in SeqsOfLen(n - 1), v \in Vecs }

\* every list of sequences whose sequences and timesteps number at most n
RECURSIVE Batches(_)
Batches(n) ==
    { <<>> } \cup
    UNION { { <<s>> \o b : s \in SeqsOfLen(k), b \in Batches(n - 1 - k) } :
            k \in 0..(n - 1) }

(***************************************************************************)
(* Numbers: dtype="float32".                                               *)
(***************************************************************************)
F32Mantissa == 24

RECURSIVE Pow2(_)
Pow2(n) == IF n = 0 THEN 1 ELSE 2 * Pow2(n - 1)

Abs(v) == IF v < 0 THEN 0 - v ELSE v

\* the spacing of the float32 values around magnitude a, starting from q
RECURSIVE F32Quantum(_, _)
F32Quantum(a, q) ==
    IF a < Pow2(F32Mantissa) * q THEN q ELSE F32Quantum(a, 2 * q)

\* round a magnitude to the nearest multiple of q, ties to the even multiple
RoundToEven(a, q) ==
    LET lo  == (a \div q) * q
        rem == a - lo
    IN  IF 2 * rem < q THEN lo
        ELSE IF 2 * rem > q THEN lo + q
        ELSE IF (lo \div q) % 2 = 0 THEN lo ELSE lo + q

\* np.asarray(., dtype="float32") on one value
ToFloat32(v) ==
    LET r == RoundToEven(Abs(v), F32Quantum(Abs(v), 1))
    IN  IF v < 0 THEN 0 - r ELSE r

Float32Vec(vec) == [k \in 1..Len(vec) |-> ToFloat32(vec[k])]

Float32Seq(s) == [j \in 1..Len(s) |-> Float32Vec(s[j])]

(***************************************************************************)
(* tf.keras.preprocessing.sequence.pad_sequences(., padding="post",        *)
(* dtype="float32"): maxlen=None, value=0.0.                               *)
(***************************************************************************)
PadValue == 0

\* the length of the first sequence in place of the longest
FirstOf(lengths, n) == IF n = 0 THEN 0 ELSE lengths[1]

RECURSIVE MaxOf(_, _)
MaxOf(lengths, n) ==
    IF n = 0 THEN 0
    ELSE LET m == MaxOf(lengths, n - 1)
         IN  IF lengths[n] > m THEN lengths[n] ELSE m

\* sample_shape: the trailing shape of the first non-empty sequence, () if none
RECURSIVE SampleShapeFrom(_, _)
SampleShapeFrom(sequences, i) ==
    IF i > Len(sequences) THEN <<>>
    ELSE IF Len(sequences[i]) > 0 THEN << Len(sequences[i][1]) >>
    ELSE SampleShapeFrom(sequences, i + 1)

SampleShape(sequences) == SampleShapeFrom(sequences, 1)

\* np.full(sample_shape, value): the content of one padded timestep
FillStep(sample_shape) ==
    IF sample_shape = <<>> THEN PadValue
    ELSE [k \in 1..sample_shape[1] |-> PadValue]

\* x[idx, -len(trunc):] = trunc, the layout of padding="pre"
PadPre(s, maxlen, sample_shape) ==
    [j \in 1..maxlen |->
        IF j > maxlen - Len(s) THEN Float32Vec(s[j - (maxlen - Len(s))])
        ELSE FillStep(sample_shape)]

\* x[idx, :len(trunc)] = trunc  for padding="post"
PadPost(s, maxlen, sample_shape) ==
    [j \in 1..maxlen |->
        IF j <= Len(s) THEN Float32Vec(s[j]) ELSE FillStep(sample_shape)]

ValueError == [ok |-> FALSE, shape |-> <<>>, data |-> <<>>]

\* a padding routine that also rejects a sequence without timesteps
pad_sequences_strict(sequences) ==
    IF Len(sequences) = 0 \/ \E i \in 1..Len(sequences) : Len(sequences[i]) = 0
    THEN ValueError
    ELSE [ok    |-> TRUE,
          shape |-> <<Len(sequences), MaxOf([i \in 1..Len(sequences) |->
                                                Len(sequences[i])],
                                            Len(sequences))>>
                    \o SampleShape(sequences),
          data  |-> [i \in 1..Len(sequences) |->
                        PadPost(sequences[i],
                                MaxOf([k \in 1..Len(sequences) |->
                                          Len(sequences[k])], Len(sequences)),
                                SampleShape(sequences))]]

pad_sequences(sequences) ==
    LET num_samples  == Len(sequences)
        lengths      == [i \in 1..num_samples |-> Len(sequences[i])]
        maxlen       == MaxOf(lengths, num_samples)
        sample_shape == SampleShape(sequences)
    IN  IF num_samples = 0 THEN ValueError   \* np.max of an empty list
        ELSE IF \E i \in 1..num_samples :
                    /\ Len(sequences[i]) > 0
                    /\ \E j \in 1..Len(sequences[i]) :
                           << Len(sequences[i][j]) >> # sample_shape
             THEN ValueError                 \* shape of sample differs
        ELSE [ok    |-> TRUE,
              shape |-> <<num_samples, maxlen>> \o sample_shape,
              data  |-> [i \in 1..num_samples |->
                            PadPost(sequences[i], maxlen, sample_shape)]]

(***************************************************************************)
(* tf.keras.layers.Masking(mask_value=0.0)                                 *)
(***************************************************************************)
\* a mask_value that is not the padding value
OtherMaskValue == 0 - 1

MaskValue == 0

\* all(.) in place of any(.): one feature equal to mask_value masks the step
StepKeptAll(vec) == \A k \in 1..Len(vec) : vec[k] # MaskValue

\* a timestep is kept when any of its features differs from mask_value
StepKept(vec) == \E k \in 1..Len(vec) : vec[k] # MaskValue

\* compute_mask: any(not_equal(inputs, mask_value), axis=-1)
ComputeMask(data) ==
    [i \in 1..Len(data) |-> [j \in 1..Len(data[i]) |-> StepKept(data[i][j])]]

\* call: inputs * cast(boolean_mask, inputs.dtype)
MaskingCall(data) ==
    [i \in 1..Len(data) |->
        [j \in 1..Len(data[i]) |->
            [k \in 1..Len(data[i][j]) |->
                IF StepKept(data[i][j]) THEN data[i][j][k] ELSE 0]]]

NoMask == [has |-> FALSE, val |-> <<>>]

(***************************************************************************)
(* tf.keras.layers.LSTM(128, return_sequences=True), LSTM(128), Dense(1)   *)
(***************************************************************************)
\* the zero input of a layer: a zero feature vector for the first layer, the
\* output of the initial state for the second
IsZeroInput(l, v) ==
    IF l = 1 THEN \A k \in 1..Len(v) : v[k] = 0 ELSE v = <<>>

\* one recurrent transition of layer l from state s on input v
LSTMCell(l, v, s) ==
    IF s = <<>> /\ IsZeroInput(l, v) THEN <<>> ELSE Append(s, v)

\* the mask of a timestep: without a mask every timestep is processed
StepMask(m, i, j) == IF m.has THEN m.val[i][j] ELSE TRUE

\* the new state whatever the mask
UnmaskedState(mask_t, new, old) == new

\* where(mask_t, new_state, state)
MaskedState(mask_t, new, old) == IF mask_t THEN new ELSE old

\* zeros at a masked timestep instead of the previous output
ZeroOutputForMask(mask_t, output, prev_output) ==
    IF mask_t THEN output ELSE <<>>

\* where(mask_t, output, prev_output)
MaskedOutput(mask_t, output, prev_output) ==
    IF mask_t THEN output ELSE prev_output

\* a mask computed again from the values the layer returned
MaskFromValues(m, outputs) ==
    [has |-> TRUE,
     val |-> [i \in 1..Len(outputs) |->
                 [j \in 1..Len(outputs[i]) |-> outputs[i][j] # <<>>]]]

\* the mask a layer that returns sequences hands to the next layer
LSTMComputeMask(m, outputs) == m

\* Dense(1) on the last output of the second layer; kernel w, zero bias
Dense(w, y) == IF y = <<>> THEN << "zero" >> ELSE << "dense", w, y >>

\* the state of layer l after the first j of `inputs`, no mask
RECURSIVE StateAfter(_, _, _)
StateAfter(l, inputs, j) ==
    IF j = 0 THEN <<>>
    ELSE LSTMCell(l, inputs[j], StateAfter(l, inputs, j - 1))

LSTMSequence(l, inputs) ==
    [j \in 1..Len(inputs) |-> StateAfter(l, inputs, j)]

\* model(array[np.newaxis, :]) on a float32 sequence of at least one timestep
Model(w, s) ==
    LET seq1 == LSTMSequence(1, s)
    IN  Dense(w, StateAfter(2, seq1, Len(seq1)))

\* an input without timesteps leaves the last output of the layers undefined:
\* the call raises or returns the response to the initial state
EmptyInput(raises) == IF raises THEN << "error" >> ELSE Dense("any", <<>>)

ModelCall(w, array, raises) ==
    IF Len(array) = 0 THEN EmptyInput(raises) ELSE Model(w, Float32Seq(array))

(***************************************************************************)
(* The notebook, cell by cell.                                             *)
(***************************************************************************)
Models == { "model", "masked_model" }

NotRun == [m \in Models |-> <<>>]

\* predict(., batch_size=256)
BatchSize == 256

\* the first rows of the tensor again, as many as are left after `off`
ChunkFromStart(data, off, bs) ==
    SubSeq(data, 1, IF off + bs < Len(data) THEN bs ELSE Len(data) - off)

\* rows off+1 .. off+bs of a tensor: the batch predict() evaluates at once
Chunk(data, off, bs) ==
    SubSeq(data, off + 1, IF off + bs < Len(data) THEN off + bs ELSE Len(data))

\* the state of the notebook at cell `at`, before its first evaluation, for
\* the given tables, sequences and batch_size arguments
InitState(tables, inputs, sizes, at) ==
    /\ df \in tables
    /\ arrays \in inputs
    /\ batch_size \in sizes
    /\ done = 0
    /\ pc = at
    /\ single = <<>>
    /\ padded = [ok |-> FALSE, shape |-> <<>>, data |-> <<>>]
    /\ weights = [model |-> "glorot_1", masked_model |-> "unbuilt"]
    /\ run = "none"
    /\ layer = 0
    /\ t = 0
    /\ x = <<>>
    /\ mask = NoMask
    /\ h = <<>>
    /\ prev = <<>>
    /\ outs = <<>>
    /\ upd = [m \in Models |-> <<>>]
    /\ pred = NotRun

Init ==
    InitState({ <<>> }, Batches(MaxSize) \cup { Scenario }, { BatchSize }, "loop")

rnnvars == <<run, layer, t, x, mask, h, prev, outs, upd, pred, batch_size, done>>

\* the arrays the loop calls the model on: all of them, or, when the call
\* on an array without timesteps raises, those up to the first such array
LoopCalls(raises) ==
    LET empty == { i \in 1..Len(arrays) : Len(arrays[i]) = 0 }
    IN  IF raises /\ empty # {}
        THEN CHOOSE i \in empty : \A k \in empty : i <= k
        ELSE Len(arrays)

\* for array in arrays: model(array[np.newaxis, :])
\* a call that raises ends the loop and the cell
EvalSingle ==
    /\ pc = "loop"
    /\ \E raises \in BOOLEAN :
           LET calls == LoopCalls(raises)
           IN  /\ single' = [i \in 1..calls |->
                                ModelCall(weights["model"], arrays[i], raises)]
               /\ pc' = IF calls > 0 /\ single'[calls] = << "error" >>
                        THEN "failed" ELSE "pad"
    /\ UNCHANGED <<df, arrays, padded, weights, rnnvars>>

\* a padding that converts the sequences of `arrays` in place
PadInPlace ==
    /\ pc = "pad"
    /\ padded' = pad_sequences(arrays)
    /\ arrays' = [i \in 1..Len(arrays) |-> Float32Seq(arrays[i])]
    /\ pc' = IF padded'.ok THEN "predict" ELSE "failed"
    /\ UNCHANGED <<df, single, weights, rnnvars>>

\* padded = pad_sequences(arrays, padding="post", dtype="float32")
Pad ==
    /\ pc = "pad"
    /\ padded' = pad_sequences(arrays)
    /\ pc' = IF padded'.ok THEN "predict" ELSE "failed"
    /\ UNCHANGED <<df, arrays, single, weights, rnnvars>>

\* the first recurrent layer starts on `data`, the rows after the first `off`
\* of the padded tensor, with mask m
StartLayers(name, off, data, m) ==
    /\ run' = name
    /\ done' = off
    /\ layer' = 1
    /\ t' = 0
    /\ x' = data
    /\ mask' = m
    /\ h' = [i \in 1..Len(data) |-> <<>>]
    /\ prev' = [i \in 1..Len(data) |-> <<>>]
    /\ outs' = [i \in 1..Len(data) |-> <<>>]
    /\ upd' = [upd EXCEPT ![name] =
                  [l \in 1..2 |->
                      (IF off = 0 THEN <<>> ELSE @[l])
                          \o [i \in 1..Len(data) |-> <<>>]]]

\* what the layers before the first recurrent layer make of the rows
ModelInput(name, rows) ==
    IF name = "masked_model" THEN MaskingCall(rows) ELSE rows

ModelMask(name, rows) ==
    IF name = "masked_model"
    THEN [has |-> TRUE, val |-> ComputeMask(rows)]
    ELSE NoMask

\* a predict() of `model` that masks the zero timesteps
PredictWithMask ==
    /\ pc = "predict"
    /\ IF Len(padded.shape) = 3
       THEN /\ StartLayers("model", 0, Chunk(padded.data, 0, batch_size),
                           [has |-> TRUE,
                            val |-> ComputeMask(Chunk(padded.data, 0, batch_size))])
            /\ pc' = "rnn"
       ELSE /\ pc' = "failed"
            /\ UNCHANGED <<run, layer, t, x, mask, h, prev, outs, upd, done>>
    /\ UNCHANGED <<df, arrays, single, padded, weights, pred, batch_size>>

\* model.predict(padded, batch_size=256): the recurrent layers need 3 dimensions
Predict ==
    /\ pc = "predict"
    /\ IF Len(padded.shape) = 3
       THEN /\ StartLayers("model", 0,
                           ModelInput("model", Chunk(padded.data, 0, batch_size)),
                           ModelMask("model", Chunk(padded.data, 0, batch_size)))
            /\ pc' = "rnn"
       ELSE /\ pc' = "failed"
            /\ UNCHANGED <<run, layer, t, x, mask, h, prev, outs, upd, done>>
    /\ UNCHANGED <<df, arrays, single, padded, weights, pred, batch_size>>

\* one timestep of the running layer, for every sequence of the batch
RnnStep ==
    /\ pc = "rnn"
    /\ t < padded.shape[2]
    /\ LET j == t + 1
           mask_t(i) == StepMask(mask, i, j)
           new(i) == LSTMCell(layer, x[i][j], h[i])
       IN  /\ h' = [i \in 1..Len(x) |-> MaskedState(mask_t(i), new(i), h[i])]
           /\ prev' = [i \in 1..Len(x) |->
                          MaskedOutput(mask_t(i), new(i), prev[i])]
           /\ outs' = [i \in 1..Len(x) |-> Append(outs[i], prev'[i])]
           /\ upd' = [upd EXCEPT ![run][layer] =
                         [i \in 1..Len(@) |->
                             IF i > done
                             THEN Append(@[i], mask_t(i - done))
                             ELSE @[i]]]
           /\ t' = j
    /\ UNCHANGED <<pc, df, arrays, single, padded, weights, run, layer, x, mask, pred,
                   batch_size, done>>

\* the first layer returns its sequence, and its mask, to the second layer
NextLayer ==
    /\ pc = "rnn"
    /\ layer = 1
    /\ t = padded.shape[2]
    /\ x' = outs
    /\ mask' = LSTMComputeMask(mask, outs)
    /\ layer' = 2
    /\ t' = 0
    /\ h' = [i \in 1..Len(x) |-> <<>>]
    /\ prev' = [i \in 1..Len(x) |-> <<>>]
    /\ outs' = [i \in 1..Len(x) |-> <<>>]
    /\ UNCHANGED <<pc, df, arrays, single, padded, weights, run, upd, pred,
                   batch_size, done>>

\* the second layer returns its last output, Dense(1) maps it to the
\* predictions of the rows; predict() goes on with the next batch_size rows
DenseOut ==
    /\ pc = "rnn"
    /\ layer = 2
    /\ t = padded.shape[2]
    /\ pred' = [pred EXCEPT ![run] =
                   @ \o [i \in 1..Len(x) |-> Dense(weights[run], prev[i])]]
    /\ LET off  == done + Len(x)
           rows == Chunk(padded.data, off, batch_size)
       IN  IF off < Len(padded.data)
           THEN /\ StartLayers(run, off, ModelInput(run, rows),
                               ModelMask(run, rows))
                /\ pc' = pc
           ELSE /\ pc' = IF run = "model" THEN "build" ELSE "done"
                /\ UNCHANGED <<run, layer, t, x, mask, h, prev, outs, upd, done>>
    /\ UNCHANGED <<df, arrays, single, padded, weights, batch_size>>

\* masked_model = Sequential([Masking, LSTM, LSTM, Dense]); masked_model.build(.)
BuildMasked ==
    /\ pc = "build"
    /\ weights' = [weights EXCEPT !["masked_model"] = "glorot_2"]
    /\ pc' = "set_weights"
    /\ UNCHANGED <<df, arrays, single, padded, rnnvars>>

\* the cell left out: masked_model keeps the weights it was built with
SkipSetWeights ==
    /\ pc = "set_weights"
    /\ pc' = "masked_predict"
    /\ UNCHANGED <<df, arrays, single, padded, weights, rnnvars>>

\* masked_model.set_weights(model.get_weights())
SetWeights ==
    /\ pc = "set_weights"
    /\ weights' = [weights EXCEPT !["masked_model"] = weights["model"]]
    /\ pc' = "masked_predict"
    /\ UNCHANGED <<df, arrays, single, padded, rnnvars>>

\* masked_model.predict(padded, batch_size=256): the Masking layer
MaskedPredict ==
    /\ pc = "masked_predict"
    /\ StartLayers("masked_model", 0,
                   ModelInput("masked_model", Chunk(padded.data, 0, batch_size)),
                   ModelMask("masked_model", Chunk(padded.data, 0, batch_size)))
    /\ pc' = "rnn"
    /\ UNCHANGED <<df, arrays, single, padded, weights, pred, batch_size>>

Next ==
    \/ EvalSingle
    \/ Pad
    \/ Predict
    \/ RnnStep
    \/ NextLayer
    \/ DenseOut
    \/ BuildMasked
    \/ SetWeights
    \/ MaskedPredict

Spec == Init /\ [][Next]_vars

\* the notebook with smaller batch_size arguments, so that predict() splits
\* the padded tensor
MaxChunk == 2

InitChunks ==
    InitState({ <<>> }, Batches(MaxSize) \cup { Scenario },
              (1..MaxChunk) \cup { BatchSize }, "loop")

SpecChunks == InitChunks /\ [][Next]_vars

(***************************************************************************)
(* The jet notebook: the same cells on the constituents of the jets of     *)
(* test.h5, a table of columns E_k, PX_k, PY_k, PZ_k.                      *)
(***************************************************************************)
\* data.reshape(len(df), -1, 4): (E, px, py, pz)
JetFeatures == 4

\* constituents: the zero padding of the table, a constituent with zero
\* components, a constituent with a component float32 cannot hold exactly
JetVecs == { <<0, 0, 0, 0>>, <<1, 0, 0, 0 - 1>>, <<16777217, 2, 0, 3>> }

\* a row of df.to_numpy(): the constituents of a jet side by side
RECURSIVE Flatten(_)
Flatten(rows) ==
    IF rows = <<>> THEN <<>> ELSE Head(rows) \o Flatten(Tail(rows))

\* the tables of at least one jet and one constituent column group, up to n
\* constituents in all
JetTables(n) ==
    UNION { [1..jets -> { Flatten(c) : c \in [1..k -> JetVecs] }] :
              <<jets, k>> \in { jk \in (1..n) \X (1..n) : jk[1] * jk[2] <= n } }

\* tables that do not hold jets of four columns each: no event, or a column
\* short
OddTables ==
    { <<>> } \cup
    { << SubSeq(Flatten(c), 1, 2 * JetFeatures - 1) >> : c \in [1..2 -> JetVecs] }

\* the constituents of one row, four values each
ReshapeRow(row) ==
    [k \in 1..(Len(row) \div JetFeatures) |->
        SubSeq(row, JetFeatures * (k - 1) + 1, JetFeatures * k)]

\* data.reshape(len(df), -1, 4): ValueError unless the size of the table is a
\* multiple of len(df) * 4, which no size is for an empty table
Reshape(data) ==
    IF Len(data) > 0 /\ \A i \in 1..Len(data) : Len(data[i]) % JetFeatures = 0
    THEN [ok    |-> TRUE,
          shape |-> <<Len(data), Len(data[1]) \div JetFeatures, JetFeatures>>,
          data  |-> [i \in 1..Len(data) |-> ReshapeRow(data[i])]]
    ELSE ValueError

\* a filter that removes the all-zero constituents after the last other one
RECURSIVE StripTrailing(_)
StripTrailing(row) ==
    IF row = <<>> THEN <<>>
    ELSE IF \A c \in 1..JetFeatures : row[Len(row)][c] = 0
         THEN StripTrailing(SubSeq(row, 1, Len(row) - 1))
         ELSE row

\* row[~(row == 0).all(axis=-1)]
JetFilter(row) ==
    SelectSeq(row, LAMBDA r : ~(\A c \in 1..JetFeatures : r[c] = 0))

\* data = df.to_numpy(); data = data.reshape(len(df), -1, 4)
\* data = [row[~(row == 0).all(axis=-1)] for row in data]
\* when reshape raises, data stays the flat table of the first line
FilterJets ==
    /\ pc = "filter"
    /\ LET data == Reshape(df)
       IN  IF data.ok
           THEN /\ arrays' = [i \in 1..Len(data.data) |-> JetFilter(data.data[i])]
                /\ pc' = "loop"
           ELSE /\ arrays' = df
                /\ pc' = "failed"
    /\ UNCHANGED <<df, single, padded, weights, rnnvars>>

InitJets ==
    InitState(JetTables(MaxSize) \cup OddTables, { <<>> }, { BatchSize }, "filter")

NextJets == FilterJets \/ Next

SpecJets == InitJets /\ [][NextJets]_vars

(***************************************************************************)
(* Properties.                                                             *)
(***************************************************************************)
B == Len(arrays)

\* every feature of the vector is zero
AllZero(vec) == \A k \in 1..Len(vec) : vec[k] = 0

\* no timestep of the sequence is the all-zero feature vector, as float32
ZeroFree(s) == \A j \in 1..Len(s) : ~AllZero(Float32Vec(s[j]))

\* the sequence has timesteps and each is the all-zero feature vector
AllZeroSeq(s) == Len(s) > 0 /\ \A j \in 1..Len(s) : AllZero(Float32Vec(s[j]))

\* padded[i][:n]
Truncate(row, n) == SubSeq(row, 1, n)

MaskingDone == pc = "rnn" /\ run = "masked_model" /\ layer = 1

\* C1 as stated: for every sequence of every batch, the masked model's output
\* on the padded batch equals the model's output on the sequence alone
\* (wherever the model returns an output for the sequence alone).
C1_MaskedEqualsSingle_AsStated ==
    pc = "done" =>
        \A i \in 1..B :
            single[i] # << "error" >> => pred["masked_model"][i] = single[i]

\* C1, amended: for every sequence that has at least one timestep and no
\* all-zero feature vector, the masked model's output on the padded batch
\* equals the model's output on the sequence alone.
C1_MaskedEqualsSingle ==
    pc = "done" =>
        \A i \in 1..B :
            (Len(arrays[i]) > 0 /\ ZeroFree(arrays[i]))
                => pred["masked_model"][i] = single[i]

C1_Witness ==
    /\ pc = "done"
    /\ \E i \in 1..B :
           /\ Len(arrays[i]) > 0
           /\ Len(arrays[i]) + 1 < padded.shape[2]
           /\ ZeroFree(arrays[i])
           /\ pred["masked_model"][i] = single[i]
           /\ pred["model"][i] # single[i]

\* C2 as stated: the mask of every sequence is true on exactly its first
\* len(S_i) positions.
C2_MaskIsLengthPrefix_AsStated ==
    MaskingDone =>
        \A i \in 1..B : \A j \in 1..padded.shape[2] :
            mask.val[i][j] = (j <= Len(arrays[i]))

\* C2, amended: the mask is true exactly on the timesteps of the sequence
\* that are not the all-zero vector; for a sequence without all-zero vectors
\* it is true on exactly the first len(S_i) positions.
C2_MaskIsLengthPrefix ==
    MaskingDone =>
        /\ mask.has
        /\ \A i \in 1..B : \A j \in 1..padded.shape[2] :
               mask.val[i][j] =
                   (j <= Len(arrays[i]) /\ ~AllZero(Float32Vec(arrays[i][j])))
        /\ \A i \in 1..B :
               ZeroFree(arrays[i]) =>
                   \A j \in 1..padded.shape[2] :
                       mask.val[i][j] = (j <= Len(arrays[i]))

C2_Witness ==
    /\ MaskingDone
    /\ Len(arrays) = 2
    /\ Len(arrays[1]) = 3
    /\ Len(arrays[2]) = 5
    /\ padded.shape = <<2, 5, 3>>
    /\ mask.val = << <<TRUE, TRUE, TRUE, FALSE, FALSE>>,
                     <<TRUE, TRUE, TRUE, TRUE, TRUE>> >>

\* C3 as stated: the first len(S_i) timesteps of row i of the padded tensor
\* are the sequence S_i itself.
C3_RoundTrip_AsStated ==
    padded.ok =>
        \A i \in 1..B : Truncate(padded.data[i], Len(arrays[i])) = arrays[i]

\* C3, amended: the first len(S_i) timesteps of row i of the padded tensor
\* are S_i converted to float32.
C3_RoundTrip ==
    padded.ok =>
        \A i \in 1..B :
            Truncate(padded.data[i], Len(arrays[i])) = Float32Seq(arrays[i])

C3_Witness ==
    /\ padded.ok
    /\ \E i \in 1..B :
           /\ Len(arrays[i]) > 0
           /\ Len(arrays[i]) < padded.shape[2]
           /\ Float32Seq(arrays[i]) # arrays[i]
           /\ Truncate(padded.data[i], Len(arrays[i])) = Float32Seq(arrays[i])

\* the length of the longest sequence
MaxLength ==
    LET lens == { Len(arrays[i]) : i \in 1..B } \cup { 0 }
    IN  CHOOSE m \in lens : \A n \in lens : n <= m

ZeroVec(n) == [k \in 1..n |-> 0]

\* C4 as stated: the padded array has shape [batch, max length, F]; row i
\* holds sequence i in its first length_i positions and zero vectors after.
C4_PaddedLayout_AsStated ==
    padded.ok =>
        /\ Len(padded.shape) = 3
        /\ padded.shape[1] = B
        /\ padded.shape[2] = MaxLength
        /\ \A i \in 1..B : \A j \in 1..MaxLength :
               /\ Len(padded.data[i][j]) = padded.shape[3]
               /\ j <= Len(arrays[i]) => padded.data[i][j] = arrays[i][j]
               /\ j > Len(arrays[i]) => padded.data[i][j] = ZeroVec(padded.shape[3])

\* C4, amended: when some sequence has a timestep, the padded array has shape
\* [batch, max length, F]; row i holds sequence i converted to float32 in its
\* first length_i positions and zero vectors after.  A batch of sequences
\* without timesteps gives an array of shape [batch, 0].
C4_PaddedLayout ==
    padded.ok =>
        /\ padded.shape[1] = B
        /\ padded.shape[2] = MaxLength
        /\ Len(padded.data) = B
        /\ \A i \in 1..B : Len(padded.data[i]) = MaxLength
        /\ MaxLength = 0 => Len(padded.shape) = 2
        /\ MaxLength > 0 =>
               /\ Len(padded.shape) = 3
               /\ \A i \in 1..B : \A j \in 1..MaxLength :
                      /\ Len(padded.data[i][j]) = padded.shape[3]
                      /\ j <= Len(arrays[i]) =>
                             padded.data[i][j] = Float32Vec(arrays[i][j])
                      /\ j > Len(arrays[i]) =>
                             padded.data[i][j] = ZeroVec(padded.shape[3])

C4_Witness ==
    /\ padded.ok
    /\ Len(padded.shape) = 3
    /\ \E i \in 1..B : \E j \in 1..B :
           /\ Len(arrays[i]) = MaxLength
           /\ Len(arrays[j]) > 0
           /\ Len(arrays[j]) + 1 < MaxLength
           /\ padded.data[j][MaxLength] = ZeroVec(padded.shape[3])
           /\ padded.data[i][MaxLength] # ZeroVec(padded.shape[3])

\* sequence s followed by n zero vectors of its width
ZeroPadded(s, n, width) ==
    Float32Seq(s) \o [j \in 1..n |-> ZeroVec(width)]

UnmaskedDone == pred["model"] # <<>>

\* C5 as stated: for every sequence (of at least one timestep) shorter than
\* the longest of the batch, the unmasked model's output on the padded batch
\* differs from the model's output on the sequence alone.
C5_UnmaskedDiffers_AsStated ==
    UnmaskedDone =>
        \A i \in 1..B :
            (Len(arrays[i]) > 0 /\ Len(arrays[i]) < padded.shape[2])
                => pred["model"][i] # single[i]

\* the sequence has a timestep that is not the all-zero vector as float32
HasNonZero(s) == \E j \in 1..Len(s) : ~AllZero(Float32Vec(s[j]))

\* C5, amended: for every sequence shorter than the longest of the batch
\* that has a timestep which is not all zero, the unmasked model's output on
\* the padded batch differs from the model's output on the sequence alone;
\* for a shorter sequence of all-zero timesteps the two are equal. The
\* unmasked model applies the recurrent transition at every timestep of the
\* padded tensor, padding included: its output for sequence i is the model's
\* output on sequence i followed by its zero padding.
C5_UnmaskedDiffers ==
    UnmaskedDone =>
        \A i \in 1..B :
            /\ (Len(arrays[i]) < padded.shape[2] /\ HasNonZero(arrays[i]))
                   => pred["model"][i] # single[i]
            /\ (Len(arrays[i]) < padded.shape[2] /\ AllZeroSeq(arrays[i]))
                   => pred["model"][i] = single[i]
            /\ pred["model"][i] =
                   Model(weights["model"],
                         ZeroPadded(arrays[i], padded.shape[2] - Len(arrays[i]),
                                    padded.shape[3]))
            /\ \A l \in 1..2 : \A j \in 1..padded.shape[2] :
                   upd["model"][l][i][j]

C5_Witness ==
    /\ UnmaskedDone
    /\ \E i \in 1..B :
           /\ Len(arrays[i]) > 0
           /\ Len(arrays[i]) + 1 < padded.shape[2]
           /\ HasNonZero(arrays[i])
           /\ upd["model"][1][i][padded.shape[2]]
           /\ pred["model"][i] # single[i]
           /\ pred["masked_model"] # <<>>
           /\ pred["masked_model"][i] = single[i]

\* C6: a sequence of all-zero feature vectors is masked at every timestep of
\* the masked model, in both layers; its output is the response to the
\* initial state, the same as the output of a row that is padding only.
C6_AllZeroSequence ==
    pc = "done" =>
        \A i \in 1..B :
            AllZeroSeq(arrays[i]) =>
                /\ \A l \in 1..2 : \A j \in 1..padded.shape[2] :
                       ~upd["masked_model"][l][i][j]
                /\ pred["masked_model"][i] = Dense(weights["masked_model"], <<>>)
                /\ \A k \in 1..B :
                       Len(arrays[k]) = 0 =>
                           pred["masked_model"][k] = pred["masked_model"][i]

C6_Witness ==
    /\ pc = "done"
    /\ \E i \in 1..B : \E k \in 1..B : \E n \in 1..B :
           /\ AllZeroSeq(arrays[i])
           /\ Len(arrays[k]) = 0
           /\ pred["masked_model"][k] = pred["masked_model"][i]
           /\ pred["masked_model"][n] # pred["masked_model"][i]

\* the loop over the sequences ended with a call that raised
LoopFailed ==
    pc = "failed" /\ Len(single) > 0 /\ single[Len(single)] = << "error" >>

\* C7: padding fails for the empty batch and for no other batch, batches with
\* a sequence without timesteps included.
C7_PadErrors ==
    (pc \notin { "loop", "pad" } /\ ~LoopFailed) =>
        /\ padded.ok <=> Len(arrays) > 0
        /\ Len(arrays) > 0 =>
               /\ Len(padded.data) = Len(arrays)
               /\ padded.shape[1] = Len(arrays)

C7_Witness ==
    /\ padded.ok
    /\ pc = "predict"
    /\ \E i \in 1..B : \E k \in 1..B :
           /\ Len(arrays[i]) = 0
           /\ Len(arrays[k]) > 0

\* C8: the padding cell changes neither the sequences of `arrays` nor the
\* outputs computed from them.
C8_PadNoSideEffect ==
    [][pc = "pad" => (arrays' = arrays /\ single' = single)]_vars

C8_Witness ==
    /\ pc = "predict"
    /\ padded.ok
    /\ \E i \in 1..B :
           /\ Len(arrays[i]) > 0
           /\ Truncate(padded.data[i], Len(arrays[i])) # arrays[i]

\* C9: in a timestep of the masked model, a sequence whose position is masked
\* keeps its state and its output; every other sequence takes the transition.
C9_MaskedStep ==
    [][(pc = "rnn" /\ run = "masked_model" /\ t' = t + 1) =>
          \A i \in 1..B :
              IF mask.val[i][t + 1]
              THEN h'[i] = LSTMCell(layer, x[i][t + 1], h[i])
              ELSE h'[i] = h[i] /\ prev'[i] = prev[i]]_vars

C9_Witness ==
    /\ pc = "rnn"
    /\ run = "masked_model"
    /\ t > 1
    /\ \E i \in 1..B : \E k \in 1..B :
           /\ ~mask.val[i][t]
           /\ h[i] # <<>>
           /\ Len(h[i]) < t
           /\ mask.val[k][t]
           /\ Len(h[k]) = t

\* C10: the second recurrent layer of the masked model runs under the mask
\* the Masking layer computed from the input tensor, and suppresses the same
\* (sequence, timestep) positions as the first layer.
C10_MaskPropagates ==
    (run = "masked_model" /\ layer = 2) =>
        /\ mask.has
        /\ \A i \in 1..B : \A j \in 1..padded.shape[2] :
               mask.val[i][j] = ~AllZero(padded.data[i][j])
        /\ \A i \in 1..B : \A j \in 1..t :
               upd["masked_model"][2][i][j] = upd["masked_model"][1][i][j]

C10_Witness ==
    /\ pc = "done"
    /\ \E i \in 1..B : \E j \in 1..padded.shape[2] :
           /\ ~upd["masked_model"][2][i][j]
           /\ x[i][j] # <<>>
    /\ \E i \in 1..B : \E j \in 1..padded.shape[2] :
           /\ upd["masked_model"][2][i][j]

\* the output of the running layer for row i of x after its timestep n
OutputAfter(i, n) == IF n = 0 THEN <<>> ELSE outs[i][n]

\* C11: once the second recurrent layer of the masked model has passed the
\* last timestep of a sequence, its last output for the sequence is the hidden
\* state it reached after that timestep, however many padded timesteps
\* follow; the prediction of the sequence is Dense(1) of that state.
C11_TerminalOutput ==
    (pc \in { "rnn", "done" } /\ run = "masked_model" /\ layer = 2) =>
        \A i \in 1..Len(x) :
            LET n == Len(arrays[done + i])
            IN  /\ t >= n => prev[i] = OutputAfter(i, n)
                /\ pc = "done" =>
                       pred["masked_model"][done + i] =
                           Dense(weights["masked_model"], OutputAfter(i, n))

C11_Witness ==
    /\ pc = "done"
    /\ \E i \in 1..Len(x) : \E k \in 1..Len(x) :
           LET n == Len(arrays[done + i])
           IN  /\ n > 0
               /\ n + 1 < padded.shape[2]
               /\ outs[i][n] # <<>>
               /\ prev[i] = outs[i][n]
               /\ prev[k] # outs[k][n]
               /\ pred["masked_model"][done + i] # << "zero" >>

\* the rows that are not all zero, in their order
RECURSIVE KeepNonZero(_)
KeepNonZero(row) ==
    IF row = <<>> THEN <<>>
    ELSE (IF AllZero(Head(row)) THEN <<>> ELSE << Head(row) >>)
             \o KeepNonZero(Tail(row))

Filtered == pc \notin { "filter", "failed" }

RefOutput(w, s) ==
    LET steps == KeepNonZero(Float32Seq(s))
    IN  IF steps = <<>> THEN Dense(w, <<>>) ELSE Model(w, steps)

\* C13: the masked model's prediction for sequence i is a function of
\* sequence i and the weights only; so two batches that hold the same
\* sequence, whatever their other sequences, their maximum length and the
\* batch_size that splits them, give the same prediction for it.
C13_DependsOnOwnSequence ==
    pc = "done" =>
        /\ Len(pred["masked_model"]) = B
        /\ \A i \in 1..B :
               pred["masked_model"][i] =
                   RefOutput(weights["masked_model"], arrays[i])

\* predict() took several batches; a sequence of an earlier batch is shorter
\* than the padded tensor and another sequence has another prediction
C13_Witness ==
    /\ pc = "done"
    /\ done > 0
    /\ \E i \in 1..done : \E k \in (done + 1)..B :
           /\ Len(arrays[i]) > 0
           /\ Len(arrays[i]) < padded.shape[2]
           /\ pred["masked_model"][i] # << "zero" >>
           /\ pred["masked_model"][k] # << "zero" >>
           /\ pred["masked_model"][k] # pred["masked_model"][i]
           /\ pred["masked_model"][i] =
                  RefOutput(weights["masked_model"], arrays[i])

====
